---- MODULE Spec2Model ----
(* Model of genmanifest.py: walk the artifact directory, parse the *.json  *)
(* files, group the artifacts by dockerfiledirname, resolve the CI context *)
(* from the environment and write one manifest_<dirname>.yaml per group.   *)
(*                                                                         *)
(* Python strings are sequences of one-character strings, so that split,   *)
(* strip, replace and endswith are computed character by character.  A     *)
(* dict is a function whose domain is the set of keys present.  A file's   *)
(* content is the sequence of strings passed to yf.write.                  *)
EXTENDS Naturals, Sequences, FiniteSets

\* ------------------------------------------------------------------------
\* Bounds
\* ------------------------------------------------------------------------

\* largest number of files in the artifact directory
MaxFiles == 3

\* ------------------------------------------------------------------------
\* String literals of the source
\* ------------------------------------------------------------------------

S_json == <<".", "j", "s", "o", "n">>
S_artifacts_dir == <<"a", "r", "t", "i", "f", "a", "c", "t", "s", "/", "k", "a", "n", "i", "k", "o", "-", "b", "u", "i", "l", "d">>
S_unknown_directory == <<"u", "n", "k", "n", "o", "w", "n", "_", "d", "i", "r", "e", "c", "t", "o", "r", "y">>
S_UNKNOWN_PROJECT_ID == <<"U", "N", "K", "N", "O", "W", "N", "_", "P", "R", "O", "J", "E", "C", "T", "_", "I", "D">>
S_0000000 == <<"0", "0", "0", "0", "0", "0", "0">>
S_true == <<"t", "r", "u", "e">>
S_release == <<"r", "e", "l", "e", "a", "s", "e">>
S_prerelease == <<"p", "r", "e", "r", "e", "l", "e", "a", "s", "e">>
S_amd64 == <<"a", "m", "d", "6", "4">>
S_arm64 == <<"a", "r", "m", "6", "4">>
S_linux == <<"l", "i", "n", "u", "x">>
S_manifest_ == <<"m", "a", "n", "i", "f", "e", "s", "t", "_">>
S_yaml == <<".", "y", "a", "m", "l">>
S_image == <<"i", "m", "a", "g", "e", ":", " ">>
S_host == <<"t", "e", "s", "t", ".", "l", "o", "c", "a", "t", "i", "o", "n", ".", "c", "o", "m", "/">>
S_builds == <<"/", "b", "u", "i", "l", "d", "s", "/">>
S_merged == <<"/", "m", "e", "r", "g", "e", "d", ":">>
S_tags == <<"t", "a", "g", "s", ":", "\n">>
S_item == <<" ", " ", "-", " ", "\"">>
S_item_end == <<"\"", "\n">>
S_manifests == <<"m", "a", "n", "i", "f", "e", "s", "t", "s", ":", "\n">>
S_entry == <<" ", " ", "-", " ", "i", "m", "a", "g", "e", ":", " ">>
S_platform == <<" ", " ", " ", " ", "p", "l", "a", "t", "f", "o", "r", "m", ":", "\n">>
S_arch_amd64 == <<" ", " ", " ", " ", " ", " ", "a", "r", "c", "h", "i", "t", "e", "c", "t", "u", "r", "e", ":", " ", "a", "m", "d", "6", "4", "\n">>
S_arch_arm64 == <<" ", " ", " ", " ", " ", " ", "a", "r", "c", "h", "i", "t", "e", "c", "t", "u", "r", "e", ":", " ", "a", "r", "m", "6", "4", "\n">>
S_os == <<" ", " ", " ", " ", " ", " ", "o", "s", ":", " ">>
NL == <<"\n">>

\* ------------------------------------------------------------------------
\* Python built-ins used by the source
\* ------------------------------------------------------------------------

\* the characters str.strip() removes
Whitespace == {" ", "\t"}

\* dict.get(key, default)
Get(d, key, default) == IF key \in DOMAIN d THEN d[key] ELSE default

\* a dict from a record of options: <<>> leaves the key out, <<v>> sets it to v
MkDict(opt) == [k \in {x \in DOMAIN opt : opt[x] # <<>>} |-> opt[k][1]]

\* str.endswith(suffix)
endswith(s, suffix) ==
    /\ Len(s) >= Len(suffix)
    /\ SubSeq(s, Len(s) - Len(suffix) + 1, Len(s)) = suffix

\* str.split(sep) for a one-character separator: empty pieces are kept
RECURSIVE split(_, _)
split(s, sep) ==
    IF \E i \in 1..Len(s) : s[i] = sep
    THEN LET i == CHOOSE i \in 1..Len(s) :
                      s[i] = sep /\ \A j \in 1..(i - 1) : s[j] # sep
         IN  <<SubSeq(s, 1, i - 1)>> \o split(SubSeq(s, i + 1, Len(s)), sep)
    ELSE <<s>>

\* str.strip()
RECURSIVE strip(_)
strip(s) ==
    IF s = <<>> THEN s
    ELSE IF s[1] \in Whitespace THEN strip(Tail(s))
    ELSE IF s[Len(s)] \in Whitespace THEN strip(SubSeq(s, 1, Len(s) - 1))
    ELSE s

\* str.replace(old, new) for one-character old and new
replace(s, old, new) == [i \in 1..Len(s) |-> IF s[i] = old THEN new ELSE s[i]]

\* os.path.join(root, filename)
join(root, filename) == root \o <<"/">> \o filename

\* {"filepath": filepath, **data}: the decoded fields win on a key collision
MergeFilepath(filepath, data) ==
    [k \in {"filepath"} \cup DOMAIN data |->
        IF k \in DOMAIN data THEN data[k] ELSE filepath]

\* ------------------------------------------------------------------------
\* Section 3 of main: the CI context
\* ------------------------------------------------------------------------

\* a non-empty str is truthy
Truthy(s) == s # <<>>

\* a variant that looks at the protected flag only
TargetProject_ProtectedOnly(environ) ==
    IF Get(environ, "CI_COMMIT_REF_PROTECTED", <<>>) = S_true
    THEN S_release
    ELSE S_prerelease

TargetProject(environ) ==
    LET CI_COMMIT_REF_PROTECTED == Get(environ, "CI_COMMIT_REF_PROTECTED", <<>>)
        CI_COMMIT_TAG == Get(environ, "CI_COMMIT_TAG", <<>>)
    IN  IF CI_COMMIT_REF_PROTECTED = S_true \/ Truthy(CI_COMMIT_TAG)
        THEN S_release
        ELSE S_prerelease

\* a variant that appends the commit tag before the ref slug
TagsString_TagFirst(environ) ==
    LET CI_COMMIT_TAG == Get(environ, "CI_COMMIT_TAG", <<>>)
        CI_COMMIT_SHORT_SHA == Get(environ, "CI_COMMIT_SHORT_SHA", S_0000000)
        CI_COMMIT_REF_SLUG == Get(environ, "CI_COMMIT_REF_SLUG", <<>>)
        TAGS0 == Get(environ, "TAGS", CI_COMMIT_SHORT_SHA)
        TAGS1 == IF Truthy(CI_COMMIT_TAG)
                 THEN TAGS0 \o <<",">> \o CI_COMMIT_TAG ELSE TAGS0
    IN  IF Truthy(CI_COMMIT_REF_SLUG)
        THEN TAGS1 \o <<",">> \o CI_COMMIT_REF_SLUG ELSE TAGS1

\* the comma-separated string TAGS after the two += of the source
TagsString(environ) ==
    LET CI_COMMIT_TAG == Get(environ, "CI_COMMIT_TAG", <<>>)
        CI_COMMIT_SHORT_SHA == Get(environ, "CI_COMMIT_SHORT_SHA", S_0000000)
        CI_COMMIT_REF_SLUG == Get(environ, "CI_COMMIT_REF_SLUG", <<>>)
        TAGS0 == Get(environ, "TAGS", CI_COMMIT_SHORT_SHA)
        TAGS1 == IF Truthy(CI_COMMIT_REF_SLUG)
                 THEN TAGS0 \o <<",">> \o CI_COMMIT_REF_SLUG ELSE TAGS0
    IN  IF Truthy(CI_COMMIT_TAG) THEN TAGS1 \o <<",">> \o CI_COMMIT_TAG ELSE TAGS1

\* a variant that keeps the pieces untrimmed
TagsList_NoStrip(TAGS) ==
    SelectSeq(split(TAGS, ","), LAMBDA tag : Truthy(strip(tag)))

\* [tag.strip() for tag in TAGS.split(",") if tag.strip()]
TagsList(TAGS) ==
    LET pieces == split(TAGS, ",")
        kept == SelectSeq(pieces, LAMBDA tag : Truthy(strip(tag)))
    IN  [i \in 1..Len(kept) |-> strip(kept[i])]

\* the variables section 3 leaves for the writer
ResolveContext(environ) ==
    [TARGET_PROJECT |-> TargetProject(environ),
     CI_PROJECT_ID |-> Get(environ, "CI_PROJECT_ID", S_UNKNOWN_PROJECT_ID),
     CI_COMMIT_SHORT_SHA |-> Get(environ, "CI_COMMIT_SHORT_SHA", S_0000000),
     tags_list |-> TagsList(TagsString(environ))]

NoContext ==
    [TARGET_PROJECT |-> <<>>, CI_PROJECT_ID |-> <<>>,
     CI_COMMIT_SHORT_SHA |-> <<>>, tags_list |-> <<>>]

\* ------------------------------------------------------------------------
\* Section 4 of main: grouping.  The defaultdict is a sequence of
\* [dirname, artifacts] in insertion order.
\* ------------------------------------------------------------------------

\* a variant that gives the default to an empty field as well
DirnameOf_EmptyToo(artifact) ==
    IF Truthy(Get(artifact, "dockerfiledirname", <<>>))
    THEN artifact["dockerfiledirname"] ELSE S_unknown_directory

DirnameOf(artifact) == Get(artifact, "dockerfiledirname", S_unknown_directory)

\* grouped_by_dir[dirname].append(artifact)
GroupAppend(grouped, dirname, artifact) ==
    IF \E i \in 1..Len(grouped) : grouped[i].dirname = dirname
    THEN [i \in 1..Len(grouped) |->
            IF grouped[i].dirname = dirname
            THEN [grouped[i] EXCEPT !.artifacts = Append(@, artifact)]
            ELSE grouped[i]]
    ELSE Append(grouped, [dirname |-> dirname, artifacts |-> <<artifact>>])

\* for artifact in build_artifacts: ...
RECURSIVE GroupLoop(_, _)
GroupLoop(artifacts, grouped) ==
    IF artifacts = <<>> THEN grouped
    ELSE GroupLoop(Tail(artifacts),
                   GroupAppend(grouped, DirnameOf(Head(artifacts)), Head(artifacts)))

GroupByDir(artifacts) == GroupLoop(artifacts, <<>>)

\* ------------------------------------------------------------------------
\* Section 5 of main: one manifest per group
\* ------------------------------------------------------------------------

\* a variant that replaces "/" only
SafeDirname_SlashOnly(dirname) == replace(dirname, "/", "_")

SafeDirname(dirname) == replace(replace(dirname, "/", "_"), "\\", "_")

ManifestFilename(dirname) == S_manifest_ \o SafeDirname(dirname) \o S_yaml

\* a.get("arch") == arch; a missing field gives None, which equals no str
ArchIs(a, arch) == "arch" \in DOMAIN a /\ a["arch"] = arch

\* any(a.get("arch") == arch for a in artifacts)
HasArch(artifacts, arch) == \E i \in 1..Len(artifacts) : ArchIs(artifacts[i], arch)

\* a variant that takes the last match
FirstOfArch_Last(artifacts, arch) ==
    IF \E i \in 1..Len(artifacts) : ArchIs(artifacts[i], arch)
    THEN artifacts[CHOOSE i \in 1..Len(artifacts) :
                      /\ ArchIs(artifacts[i], arch)
                      /\ \A j \in (i + 1)..Len(artifacts) : ~ArchIs(artifacts[j], arch)]
    ELSE <<>>

\* next((a for a in artifacts if a.get("arch") == arch), {})
FirstOfArch(artifacts, arch) ==
    IF HasArch(artifacts, arch)
    THEN artifacts[CHOOSE i \in 1..Len(artifacts) :
                      /\ ArchIs(artifacts[i], arch)
                      /\ \A j \in 1..(i - 1) : ~ArchIs(artifacts[j], arch)]
    ELSE <<>>

ImageRef(dirname, ctx) ==
    S_host \o ctx.TARGET_PROJECT \o S_builds \o ctx.CI_PROJECT_ID \o <<"/">>
        \o dirname \o S_merged \o ctx.CI_COMMIT_SHORT_SHA \o NL

\* the four writes of one architecture's entry
ArchEntry(dirname, ctx, archLine, artifact) ==
    << S_entry \o ImageRef(dirname, ctx),
       S_platform,
       archLine,
       S_os \o Get(artifact, "platform", S_linux) \o NL >>

\* the strings written to yf, in order
ManifestWrites(dirname, artifacts, ctx) ==
    LET has_amd64 == HasArch(artifacts, S_amd64)
        has_arm64 == HasArch(artifacts, S_arm64)
        amd64_artifact == FirstOfArch(artifacts, S_amd64)
        arm64_artifact == FirstOfArch(artifacts, S_arm64)
    IN  << S_image \o ImageRef(dirname, ctx), S_tags >>
        \o [i \in 1..Len(ctx.tags_list) |-> S_item \o ctx.tags_list[i] \o S_item_end]
        \o << S_manifests >>
        \o (IF has_amd64
            THEN ArchEntry(dirname, ctx, S_arch_amd64, amd64_artifact) ELSE <<>>)
        \o (IF has_arm64
            THEN ArchEntry(dirname, ctx, S_arch_arm64, arm64_artifact) ELSE <<>>)

\* a variant that opens the file in append mode
WriteFile_Append(files, filename, content) ==
    [f \in DOMAIN files \cup {filename} |->
        IF f # filename THEN files[f]
        ELSE IF f \in DOMAIN files THEN files[f] \o content ELSE content]

\* open(manifest_filename, "w") followed by the writes: the file is created
\* or truncated and then holds exactly what was written
WriteFile(files, filename, content) ==
    [f \in DOMAIN files \cup {filename} |->
        IF f = filename THEN content ELSE files[f]]

\* ------------------------------------------------------------------------
\* Inputs: the artifact directory, the environment, the working directory
\* ------------------------------------------------------------------------

S_dot == <<".">>
S_jsonl == <<".", "j", "s", "o", "n", "l">>
S_a_slash_b == <<"a", "/", "b">>
S_a_backslash_b == <<"a", "\\", "b">>
S_a_b == <<"a", "_", "b">>
S_app == <<"a", "p", "p">>
S_windows == <<"w", "i", "n", "d", "o", "w", "s">>
S_abc123 == <<"a", "b", "c", "1", "2", "3">>
S_v1 == <<"v", "1">>
S_stale == <<"s", "t", "a", "l", "e", "\n">>
Digits == <<"1", "2", "3", "4", "5", "6", "7", "8", "9">>

\* what open() and json.load() do with a file
Kinds == {"object", "malformed", "unreadable", "nonobject"}

FileOption(ext, kind, dn, ar, pl) ==
    [ext |-> ext, kind |-> kind,
     data |-> MkDict([dockerfiledirname |-> dn, arch |-> ar, platform |-> pl])]

\* the i-th file of the directory, named f<i><ext>
FileOf(i, o) ==
    [filename |-> <<"f", Digits[i]>> \o o.ext, kind |-> o.kind, data |-> o.data]

TreesOf(options, lens) ==
    UNION { { [i \in 1..n |-> FileOf(i, c[i])] : c \in [1..n -> options] } : n \in lens }

\* directories that vary the file names, the file contents and the group keys
GroupingOptions ==
    { FileOption(S_jsonl, "object", <<S_a_slash_b>>, <<S_amd64>>, <<>>),
      FileOption(S_json, "malformed", <<>>, <<>>, <<>>),
      FileOption(S_json, "unreadable", <<>>, <<>>, <<>>),
      FileOption(S_json, "nonobject", <<>>, <<>>, <<>>) }
    \cup { FileOption(S_json, "object", dn, <<S_amd64>>, <<>>) :
             dn \in {<<>>, << <<>> >>, <<S_a_slash_b>>, <<S_a_backslash_b>>} }

\* directories that vary the architectures and platforms inside the groups
ArchOptions ==
    { FileOption(S_json, "object", dn, ap[1], ap[2]) :
        dn \in {<<>>, <<S_a_b>>},
        ap \in { << <<>>, <<>> >>,
                 << <<S_amd64>>, <<>> >>, << <<S_amd64>>, <<S_windows>> >>,
                 << <<S_arm64>>, <<S_linux>> >>, << <<S_arm64>>, <<S_windows>> >> } }

\* the directory of the worked example: one artifact app / amd64 / linux
ExampleTree ==
    << FileOf(1, FileOption(S_json, "object", <<S_app>>, <<S_amd64>>, <<S_linux>>)) >>

\* environments that vary the CI variables
CIEnvironments ==
    { MkDict(o) : o \in
        [CI_COMMIT_REF_PROTECTED :
            {<<>>, << <<>> >>, <<S_true>>, << <<"T", "r", "u", "e">> >>, << <<"1">> >>},
         CI_COMMIT_TAG :
            {<<>>, << <<>> >>, <<S_v1>>, << <<" ">> >>,
             << <<"v", "1", ",", "v", "2">> >>, << <<" ", "v", "1">> >>},
         CI_COMMIT_REF_SLUG :
            {<<>>, << <<>> >>, << <<"m">> >>, << <<"\t">> >>, << <<"m", ",", "x">> >>},
         TAGS :
            {<<>>, << <<>> >>, << <<"a", ",", " ", "b">> >>, << <<"a", ",", ",", "a">> >>},
         CI_COMMIT_SHORT_SHA : {<<>>, <<S_abc123>>},
         CI_PROJECT_ID : {<<>>, << <<"7">> >>}] }

\* environments that only choose the directory: the default one, or the
\* working directory itself, whose manifest files are then part of the walk
DirEnvironments == { MkDict([KANIKO_ARTIFACTS_DIR |-> d]) : d \in {<<>>, <<S_dot>>} }

EmptyDir == [f \in {} |-> <<>>]

\* the working directory before the first run: empty, or holding a manifest
\* left by something else
WorkingDirs == { EmptyDir, [f \in {ManifestFilename(S_a_b)} |-> <<S_stale>>] }

\* ------------------------------------------------------------------------
\* State
\* ------------------------------------------------------------------------

VARIABLES
    tree,            \* the files under the artifact directory, in os.walk order
    environ,         \* os.environ
    cwd,             \* the files of the working directory: filename -> writes
    cwdStart,        \* cwd when the current run started
    run,             \* 1 for the first invocation, 2 for the re-run
    pc,              \* "collect", "group", "write", "done", "crashed"
    error,           \* the exception that ended the run, or "none"
    walk,            \* the (root, filename) pairs the walk of this run yields
    idx,             \* position of the collector in walk
    build_artifacts,
    ctx,             \* TARGET_PROJECT, CI_PROJECT_ID, CI_COMMIT_SHORT_SHA, tags_list
    grouped_by_dir,
    gi,              \* position of the writer in grouped_by_dir.items()
    generated        \* the "Generated <file> for <dirname>" lines of this run

vars == << tree, environ, cwd, cwdStart, run, pc, error, walk, idx,
           build_artifacts, ctx, grouped_by_dir, gi, generated >>

RECURSIVE SeqOfSet(_)
SeqOfSet(S) ==
    IF S = {} THEN <<>>
    ELSE LET x == CHOOSE x \in S : TRUE IN <<x>> \o SeqOfSet(S \ {x})

\* os.walk(KANIKO_ARTIFACTS_DIR): the files of the tree; when the directory
\* is the working directory, the manifest files already there as well
Walk(t, env, dir) ==
    LET KANIKO_ARTIFACTS_DIR == Get(env, "KANIKO_ARTIFACTS_DIR", S_artifacts_dir)
        own == [i \in 1..Len(t) |->
                  [root |-> KANIKO_ARTIFACTS_DIR, filename |-> t[i].filename,
                   kind |-> t[i].kind, data |-> t[i].data]]
        names == SeqOfSet(DOMAIN dir)
        outputs == [i \in 1..Len(names) |->
                      [root |-> KANIKO_ARTIFACTS_DIR, filename |-> names[i],
                       kind |-> "malformed", data |-> <<>>]]
    IN  IF KANIKO_ARTIFACTS_DIR = S_dot THEN own \o outputs ELSE own

StartRun(t, env, dir, r) ==
    /\ tree = t
    /\ environ = env
    /\ cwd = dir
    /\ cwdStart = dir
    /\ run = r
    /\ pc = "collect"
    /\ error = "none"
    /\ walk = Walk(t, env, dir)
    /\ idx = 1
    /\ build_artifacts = <<>>
    /\ ctx = NoContext
    /\ grouped_by_dir = <<>>
    /\ gi = 1
    /\ generated = <<>>

Init ==
    \/ \E t \in TreesOf(GroupingOptions, 0..MaxFiles), env \in DirEnvironments,
          dir \in WorkingDirs :
            StartRun(t, env, dir, 1)
    \/ \E t \in TreesOf(ArchOptions, 1..MaxFiles) :
            StartRun(t, MkDict([KANIKO_ARTIFACTS_DIR |-> <<>>]), EmptyDir, 1)
    \/ \E env \in CIEnvironments :
            StartRun(ExampleTree, env, EmptyDir, 1)

\* ------------------------------------------------------------------------
\* Section 2 of main: the collector, one file per step
\* ------------------------------------------------------------------------

Collecting == pc = "collect" /\ idx <= Len(walk)

NextFile ==
    /\ idx' = idx + 1
    /\ UNCHANGED << tree, environ, cwd, cwdStart, run, pc, error, walk, ctx,
                    grouped_by_dir, gi, generated >>

\* if not filename.endswith(".json"): continue
CollectSkip ==
    /\ Collecting
    /\ ~endswith(walk[idx].filename, S_json)
    /\ NextFile
    /\ UNCHANGED build_artifacts

\* json.load returns a dict: the artifact is appended
CollectValid ==
    /\ Collecting
    /\ endswith(walk[idx].filename, S_json)
    /\ walk[idx].kind = "object"
    /\ build_artifacts' =
          Append(build_artifacts,
                 MergeFilepath(join(walk[idx].root, walk[idx].filename), walk[idx].data))
    /\ NextFile

\* open raises OSError or json.load raises JSONDecodeError: caught, logged
CollectInvalid ==
    /\ Collecting
    /\ endswith(walk[idx].filename, S_json)
    /\ walk[idx].kind \in {"malformed", "unreadable"}
    /\ NextFile
    /\ UNCHANGED build_artifacts

\* json.load returns a list, a string, a number, a bool or None: **data
\* raises TypeError, which the except clause does not name
CollectCrash ==
    /\ Collecting
    /\ endswith(walk[idx].filename, S_json)
    /\ walk[idx].kind = "nonobject"
    /\ pc' = "crashed"
    /\ error' = "TypeError"
    /\ UNCHANGED << tree, environ, cwd, cwdStart, run, walk, idx, build_artifacts,
                    ctx, grouped_by_dir, gi, generated >>

\* if not build_artifacts: return
ExitNoArtifacts ==
    /\ pc = "collect"
    /\ idx > Len(walk)
    /\ build_artifacts = <<>>
    /\ pc' = "done"
    /\ UNCHANGED << tree, environ, cwd, cwdStart, run, error, walk, idx,
                    build_artifacts, ctx, grouped_by_dir, gi, generated >>

\* section 3
Resolve ==
    /\ pc = "collect"
    /\ idx > Len(walk)
    /\ build_artifacts # <<>>
    /\ ctx' = ResolveContext(environ)
    /\ pc' = "group"
    /\ UNCHANGED << tree, environ, cwd, cwdStart, run, error, walk, idx,
                    build_artifacts, grouped_by_dir, gi, generated >>

\* section 4
Group ==
    /\ pc = "group"
    /\ grouped_by_dir' = GroupByDir(build_artifacts)
    /\ gi' = 1
    /\ pc' = "write"
    /\ UNCHANGED << tree, environ, cwd, cwdStart, run, error, walk, idx,
                    build_artifacts, ctx, generated >>

\* ------------------------------------------------------------------------
\* Section 5 of main: the writer, one group per step
\* ------------------------------------------------------------------------

Writing == pc = "write" /\ gi <= Len(grouped_by_dir)

CurrentFilename == ManifestFilename(grouped_by_dir[gi].dirname)

CurrentWrites ==
    ManifestWrites(grouped_by_dir[gi].dirname, grouped_by_dir[gi].artifacts, ctx)

\* the with block completes and the Generated line is printed
WriteManifest ==
    /\ Writing
    /\ cwd' = WriteFile(cwd, CurrentFilename, CurrentWrites)
    /\ generated' = Append(generated, [filename |-> CurrentFilename,
                                       dirname |-> grouped_by_dir[gi].dirname])
    /\ gi' = gi + 1
    /\ UNCHANGED << tree, environ, cwdStart, run, pc, error, walk, idx,
                    build_artifacts, ctx, grouped_by_dir >>

\* a variant in which the exception is caught and the loop goes on
Crash_Caught(e) ==
    /\ error' = e
    /\ gi' = gi + 1
    /\ UNCHANGED << tree, environ, cwdStart, run, pc, walk, idx, build_artifacts,
                    ctx, grouped_by_dir, generated >>

\* the exception leaves main
Crash(e) ==
    /\ pc' = "crashed"
    /\ error' = e
    /\ UNCHANGED << tree, environ, cwdStart, run, walk, idx, build_artifacts, ctx,
                    grouped_by_dir, gi, generated >>

\* open(manifest_filename, "w") raises OSError: nothing is touched
WriteFailOpen ==
    /\ Writing
    /\ Crash("OSError")
    /\ UNCHANGED cwd

\* the file was opened, hence truncated, and a write raises OSError: the
\* file keeps some of the writes, from none to all but the last
WriteFailPartial ==
    /\ Writing
    /\ \E k \in 0..(Len(CurrentWrites) - 1) :
          cwd' = WriteFile(cwd, CurrentFilename, SubSeq(CurrentWrites, 1, k))
    /\ Crash("OSError")

\* the for loop over grouped_by_dir.items() is exhausted
Finish ==
    /\ pc = "write"
    /\ gi > Len(grouped_by_dir)
    /\ pc' = "done"
    /\ UNCHANGED << tree, environ, cwd, cwdStart, run, error, walk, idx,
                    build_artifacts, ctx, grouped_by_dir, gi, generated >>

\* the tool is invoked again on the same directory and environment, after a
\* run in which no write failed
Rerun ==
    /\ run = 1
    /\ \/ pc = "done"
       \/ pc = "crashed" /\ error = "TypeError"
    /\ run' = 2
    /\ pc' = "collect"
    /\ error' = "none"
    /\ cwdStart' = cwd
    /\ walk' = Walk(tree, environ, cwd)
    /\ idx' = 1
    /\ build_artifacts' = <<>>
    /\ ctx' = NoContext
    /\ grouped_by_dir' = <<>>
    /\ gi' = 1
    /\ generated' = <<>>
    /\ UNCHANGED << tree, environ, cwd >>

Next ==
    \/ CollectSkip
    \/ CollectValid
    \/ CollectInvalid
    \/ CollectCrash
    \/ ExitNoArtifacts
    \/ Resolve
    \/ Group
    \/ WriteManifest
    \/ WriteFailOpen
    \/ WriteFailPartial
    \/ Finish
    \/ Rerun

Spec == Init /\ [][Next]_vars

TypeOK ==
    /\ run \in 1..2
    /\ pc \in {"collect", "group", "write", "done", "crashed"}
    /\ error \in {"none", "TypeError", "OSError"}
    /\ idx \in 1..(Len(walk) + 1)
    /\ gi \in 1..(Len(grouped_by_dir) + 1)
    /\ \A i \in 1..Len(walk) : walk[i].kind \in Kinds

\* ------------------------------------------------------------------------
\* Properties
\* ------------------------------------------------------------------------

\* the files the collector has gone past
Processed == SubSeq(walk, 1, idx - 1)

\* a file whose name ends in .json and whose content decodes as an object
YieldsArtifact(f) ==
    /\ Len(f.filename) >= 5
    /\ \A i \in 1..5 : f.filename[Len(f.filename) - 5 + i] = S_json[i]
    /\ f.kind = "object"

\* grouped_by_dir holds the result of the grouper
Grouped == pc = "write" \/ (pc \in {"done", "crashed"} /\ grouped_by_dir # <<>>)

\* C1: for every .json file the collector appends exactly one artifact or
\* discards the file and goes on; no content ends the run during collection;
\* the artifacts are those of the parsed .json files, in traversal order;
\* other files yield nothing.
C1_CollectorNeverStops ==
    LET parsed == SelectSeq(Processed, YieldsArtifact)
    IN  /\ ~(pc = "crashed" /\ error = "TypeError")
        /\ Len(build_artifacts) = Len(parsed)
        /\ \A i \in 1..Len(parsed) :
              /\ build_artifacts[i]["filepath"]
                    = parsed[i].root \o <<"/">> \o parsed[i].filename
              /\ \A k \in DOMAIN parsed[i].data :
                    build_artifacts[i][k] = parsed[i].data[k]

\* the key the claim gives an artifact: the default for a missing or empty field
KeyMissingOrEmpty(a) ==
    IF "dockerfiledirname" \in DOMAIN a /\ a["dockerfiledirname"] # <<>>
    THEN a["dockerfiledirname"] ELSE S_unknown_directory

\* the key with the default for a missing field only
KeyMissingOnly(a) ==
    IF "dockerfiledirname" \in DOMAIN a
    THEN a["dockerfiledirname"] ELSE S_unknown_directory

\* grouped_by_dir partitions build_artifacts by Key: every artifact is in
\* exactly one group, the one of its key; groups are in first-seen order and
\* keep the collection order
PartitionedBy(Key(_)) ==
    LET A == build_artifacts
        G == grouped_by_dir
        First(k) == CHOOSE i \in 1..Len(A) :
                       Key(A[i]) = k /\ \A j \in 1..(i - 1) : Key(A[j]) # k
    IN  /\ \A i \in 1..Len(A) :
              /\ Cardinality({g \in 1..Len(G) :
                    \E j \in 1..Len(G[g].artifacts) : G[g].artifacts[j] = A[i]}) = 1
              /\ \E g \in 1..Len(G) :
                    /\ G[g].dirname = Key(A[i])
                    /\ \E j \in 1..Len(G[g].artifacts) : G[g].artifacts[j] = A[i]
        /\ \A g \in 1..Len(G) :
              G[g].artifacts = SelectSeq(A, LAMBDA a : Key(a) = G[g].dirname)
        /\ \A g, h \in 1..Len(G) :
              g < h => /\ G[g].dirname # G[h].dirname
                       /\ First(G[g].dirname) < First(G[h].dirname)

\* C2 as stated: an artifact whose dockerfiledirname is missing or empty lands
\* in "unknown_directory", any other in the group of its field value.
C2_MissingOrEmptyDefault == Grouped => PartitionedBy(KeyMissingOrEmpty)

\* C2 amended: only a missing dockerfiledirname lands in "unknown_directory";
\* an empty one lands in the group keyed by the empty string.  The groups
\* partition the artifacts, in first-seen order, keeping collection order.
C2_MissingDefault == Grouped => PartitionedBy(KeyMissingOnly)

C2_Witness ==
    /\ pc = "write"
    /\ Len(grouped_by_dir) = 2
    /\ grouped_by_dir[1].dirname = <<>>
    /\ grouped_by_dir[2].dirname = S_unknown_directory
    /\ Len(grouped_by_dir[1].artifacts) = 2

\* no file of the walk yields an artifact
NothingToCollect == \A i \in 1..Len(walk) : ~YieldsArtifact(walk[i])

\* C7: when no .json file yields a valid artifact the run terminates
\* successfully and leaves the working directory as it was; when an artifact
\* is collected and every write succeeds, at least one manifest is written.
C7_EmptyRunSucceeds ==
    /\ (NothingToCollect /\ (pc \in {"done", "crashed"} \/ idx > Len(walk)))
          => /\ pc # "crashed"
             /\ cwd = cwdStart
    /\ (pc = "done" /\ build_artifacts # <<>>) => generated # <<>>

\* section 3 has run: ctx holds the channel and the tag list
Resolved == pc = "group" \/ Grouped

\* the run has just written the manifest of group gi - 1 and closed it
JustWritten == pc \in {"write", "done"} /\ gi > 1

LastGroup == grouped_by_dir[gi - 1]

LastDoc == cwd[generated[Len(generated)].filename]

HasPrefix(s, p) == Len(s) >= Len(p) /\ SubSeq(s, 1, Len(p)) = p

HasSuffix(s, p) == Len(s) >= Len(p) /\ SubSeq(s, Len(s) - Len(p) + 1, Len(s)) = p

\* the position of the manifests: line of a document
ManifestsAt(doc) == CHOOSE m \in 1..Len(doc) : doc[m] = S_manifests

WellFormed(doc) ==
    /\ Len(doc) >= 3
    /\ HasPrefix(doc[1], S_image)
    /\ doc[2] = S_tags
    /\ \E m \in 3..Len(doc) : doc[m] = S_manifests
    /\ (Len(doc) - ManifestsAt(doc)) % 4 = 0

\* the entries of the manifests section: the architecture and os lines
EntriesOf(doc) ==
    LET m == ManifestsAt(doc)
    IN  [e \in 1..((Len(doc) - m) \div 4) |->
            [architecture |-> doc[m + 4 * (e - 1) + 3],
             os |-> doc[m + 4 * (e - 1) + 4]]]

\* the entry the claim expects for one architecture: none when no artifact
\* has it, else one whose os comes from the first artifact that has it
ExpectedEntry(artifacts, arch, archLine) ==
    LET idxs == {i \in 1..Len(artifacts) :
                    "arch" \in DOMAIN artifacts[i] /\ artifacts[i]["arch"] = arch}
    IN  IF idxs = {} THEN <<>>
        ELSE LET first == CHOOSE i \in idxs : \A j \in idxs : i <= j
                 os == IF "platform" \in DOMAIN artifacts[first]
                       THEN artifacts[first]["platform"] ELSE S_linux
             IN  << [architecture |-> archLine, os |-> S_os \o os \o NL] >>

\* C3: a group's document has an amd64 entry iff the group has an amd64
\* artifact and an arm64 entry iff it has an arm64 artifact, at most one of
\* each, amd64 first; the os of an entry is the platform of the first artifact
\* of that architecture, "linux" when it has none; no architecture, no entry.
C3_ArchEntries ==
    JustWritten =>
        /\ WellFormed(LastDoc)
        /\ EntriesOf(LastDoc) =
              ExpectedEntry(LastGroup.artifacts, S_amd64, S_arch_amd64)
                 \o ExpectedEntry(LastGroup.artifacts, S_arm64, S_arch_arm64)

C3_Witness ==
    /\ JustWritten
    /\ Len(LastGroup.artifacts) = 3
    /\ \A i \in 1..3 : "arch" \in DOMAIN LastGroup.artifacts[i]
    /\ LastGroup.artifacts[1]["arch"] = S_arm64
    /\ LastGroup.artifacts[2]["arch"] = S_amd64
    /\ LastGroup.artifacts[3]["arch"] = S_amd64
    /\ "platform" \notin DOMAIN LastGroup.artifacts[2]
    /\ "platform" \in DOMAIN LastGroup.artifacts[3]
    /\ Len(EntriesOf(LastDoc)) = 2

\* s without its leading and trailing blanks
Trim(s) ==
    LET nb == {i \in 1..Len(s) : s[i] # " " /\ s[i] # "\t"}
    IN  IF nb = {} THEN <<>>
        ELSE SubSeq(s, CHOOSE i \in nb : \A j \in nb : i <= j,
                       CHOOSE i \in nb : \A j \in nb : j <= i)

\* the comma-separated pieces of s, read one character at a time
RECURSIVE Scan(_, _, _)
Scan(s, cur, out) ==
    IF s = <<>> THEN Append(out, cur)
    ELSE IF Head(s) = "," THEN Scan(Tail(s), <<>>, Append(out, cur))
    ELSE Scan(Tail(s), Append(cur, Head(s)), out)

\* the trimmed, non-empty pieces of s
Pieces(s) ==
    LET raw == Scan(s, <<>>, <<>>)
    IN  SelectSeq([i \in 1..Len(raw) |-> Trim(raw[i])], LAMBDA t : t # <<>>)

\* the value of an environment variable, "" when it is not set
Env(name) == IF name \in DOMAIN environ THEN environ[name] ELSE <<>>

\* the tag list the claim describes: the pieces of TAGS (of the short SHA
\* when TAGS is unset), then those of the ref slug, then those of the tag
ExpectedTags ==
    LET sha == IF "CI_COMMIT_SHORT_SHA" \in DOMAIN environ
               THEN environ["CI_COMMIT_SHORT_SHA"] ELSE S_0000000
        base == IF "TAGS" \in DOMAIN environ THEN environ["TAGS"] ELSE sha
    IN  Pieces(base) \o Pieces(Env("CI_COMMIT_REF_SLUG")) \o Pieces(Env("CI_COMMIT_TAG"))

\* the tags a document lists between tags: and manifests:
DocTags(doc) ==
    [i \in 1..(ManifestsAt(doc) - 3) |->
        SubSeq(doc[2 + i], Len(S_item) + 1, Len(doc[2 + i]) - Len(S_item_end))]

OnlyShortSha == [k \in {"CI_COMMIT_SHORT_SHA"} |-> S_abc123]

\* C4: the tag list is TAGS (the short SHA, itself "0000000" by default, when
\* TAGS is unset), then the ref slug, then the commit tag, split on commas,
\* trimmed, without the empty pieces, in order, duplicates kept; every
\* document written lists exactly these tags in this order; with only the
\* short SHA "abc123" set the list is ["abc123"].
C4_TagList ==
    /\ Resolved => ctx.tags_list = ExpectedTags
    /\ (Resolved /\ environ = OnlyShortSha) => ctx.tags_list = <<S_abc123>>
    /\ JustWritten =>
          /\ WellFormed(LastDoc)
          /\ \A i \in 3..(ManifestsAt(LastDoc) - 1) :
                HasPrefix(LastDoc[i], S_item) /\ HasSuffix(LastDoc[i], S_item_end)
          /\ DocTags(LastDoc) = ExpectedTags

C4_Witness ==
    /\ pc = "done"
    /\ generated # <<>>
    /\ Env("TAGS") = <<"a", ",", ",", "a">>
    /\ Env("CI_COMMIT_REF_SLUG") = <<"m">>
    /\ Env("CI_COMMIT_TAG") = S_v1
    /\ DocTags(LastDoc) = << <<"a">>, <<"a">>, <<"m">>, S_v1 >>

\* the channel of an image reference: what follows the host, up to the "/"
ChannelOf(line, prefix) ==
    LET rest == SubSeq(line, Len(prefix) + 1, Len(line))
        k == CHOOSE i \in 1..Len(rest) :
                rest[i] = "/" /\ \A j \in 1..(i - 1) : rest[j] # "/"
    IN  SubSeq(rest, 1, k - 1)

\* C5: the channel is "release" iff CI_COMMIT_REF_PROTECTED is exactly "true"
\* or CI_COMMIT_TAG is non-empty, "prerelease" otherwise, and every image
\* reference of every document written carries that channel.
C5_Channel ==
    LET release == \/ ("CI_COMMIT_REF_PROTECTED" \in DOMAIN environ
                          /\ environ["CI_COMMIT_REF_PROTECTED"] = S_true)
                   \/ ("CI_COMMIT_TAG" \in DOMAIN environ
                          /\ environ["CI_COMMIT_TAG"] # <<>>)
        channel == IF release THEN S_release ELSE S_prerelease
    IN  /\ Resolved => /\ ctx.TARGET_PROJECT = S_release <=> release
                       /\ ctx.TARGET_PROJECT = S_prerelease <=> ~release
        /\ JustWritten =>
              /\ HasPrefix(LastDoc[1], S_image \o S_host)
              /\ ChannelOf(LastDoc[1], S_image \o S_host) = channel
              /\ \A i \in 2..Len(LastDoc) :
                    HasPrefix(LastDoc[i], S_entry) =>
                        /\ HasPrefix(LastDoc[i], S_entry \o S_host)
                        /\ ChannelOf(LastDoc[i], S_entry \o S_host) = channel

C5_Witness ==
    /\ pc = "done"
    /\ generated # <<>>
    /\ Env("CI_COMMIT_REF_PROTECTED") = <<"T", "r", "u", "e">>
    /\ "CI_COMMIT_TAG" \notin DOMAIN environ
    /\ ChannelOf(LastDoc[1], S_image \o S_host) = S_prerelease

\* C6 as stated: for every non-empty CI_COMMIT_TAG the tag list is non-empty,
\* its last element is the CI_COMMIT_TAG value, and a ref slug that is
\* present appears earlier in the list.
C6_TagIsLast ==
    (Resolved /\ Env("CI_COMMIT_TAG") # <<>>) =>
        LET tags == ctx.tags_list
        IN  /\ tags # <<>>
            /\ tags[Len(tags)] = Env("CI_COMMIT_TAG")
            /\ Env("CI_COMMIT_REF_SLUG") # <<>> =>
                  \E i \in 1..(Len(tags) - 1) : tags[i] = Env("CI_COMMIT_REF_SLUG")

\* s is kept as one tag: it has no comma and is not made of blanks only
OnePiece(s) == Trim(s) # <<>> /\ \A i \in 1..Len(s) : s[i] # ","

\* C6 amended: for every CI_COMMIT_TAG that has no comma and is not blank the
\* tag list is non-empty and its last element is the CI_COMMIT_TAG value
\* without its surrounding blanks; a ref slug that likewise has no comma and
\* is not blank appears, trimmed, earlier in the list.
C6_TrimmedTagIsLast ==
    (Resolved /\ OnePiece(Env("CI_COMMIT_TAG"))) =>
        LET tags == ctx.tags_list
        IN  /\ tags # <<>>
            /\ tags[Len(tags)] = Trim(Env("CI_COMMIT_TAG"))
            /\ OnePiece(Env("CI_COMMIT_REF_SLUG")) =>
                  \E i \in 1..(Len(tags) - 1) :
                      tags[i] = Trim(Env("CI_COMMIT_REF_SLUG"))

C6_Witness ==
    /\ Resolved
    /\ Env("CI_COMMIT_TAG") = <<" ", "v", "1">>
    /\ Env("CI_COMMIT_REF_SLUG") = <<"m">>
    /\ Env("TAGS") = <<"a", ",", " ", "b">>
    /\ ctx.tags_list = << <<"a">>, <<"b">>, <<"m">>, S_v1 >>

\* a group key with every "/" and "\" replaced by "_"
Sanitized(key) ==
    [i \in 1..Len(key) |-> IF key[i] \in {"/", "\\"} THEN "_" ELSE key[i]]

\* manifest_<safe>.yaml
ExpectedName(key) == S_manifest_ \o Sanitized(key) \o S_yaml

\* the elements of a finite set of numbers, smallest first
RECURSIVE Ascending(_)
Ascending(S) ==
    IF S = {} THEN <<>>
    ELSE LET m == CHOOSE x \in S : \A y \in S : x <= y
         IN  <<m>> \o Ascending(S \ {m})

\* the group keys in the order the groups were discovered
DiscoveredKeys ==
    LET A == build_artifacts
        firsts == {i \in 1..Len(A) :
                      \A j \in 1..(i - 1) : KeyMissingOnly(A[j]) # KeyMissingOnly(A[i])}
        order == Ascending(firsts)
    IN  [n \in 1..Len(order) |-> KeyMissingOnly(A[order[n]])]

\* the document of the n-th group discovered
DocumentOf(n) ==
    ManifestWrites(grouped_by_dir[n].dirname, grouped_by_dir[n].artifacts, ctx)

\* the last of the groups 1..n whose manifest has the name f
LastNamed(f, n) ==
    CHOOSE i \in 1..n :
        /\ ExpectedName(DiscoveredKeys[i]) = f
        /\ \A j \in 1..n : ExpectedName(DiscoveredKeys[j]) = f => j <= i

\* the files named after the groups 1..n
NamesUpTo(n) == {ExpectedName(DiscoveredKeys[i]) : i \in 1..n}

\* the files outside names are as they were when the run started
OthersUntouched(names) ==
    /\ DOMAIN cwd = DOMAIN cwdStart \cup (names \cap DOMAIN cwd)
    /\ \A f \in DOMAIN cwd \ names : cwd[f] = cwdStart[f]

\* C8: the groups are written one file each, in discovery order, to
\* manifest_<safe>.yaml, <safe> being the key with "/" and "\" replaced by
\* "_"; after a successful run the files written are exactly the sanitized
\* names of the groups; a file named by several keys holds the whole
\* document of the last of them and nothing of the earlier ones.
C8_OneFilePerGroup ==
    pc \in {"write", "done"} =>
        LET n == Len(generated)
        IN  /\ n = gi - 1
            /\ n <= Len(DiscoveredKeys)
            /\ pc = "done" => n = Len(DiscoveredKeys)
            /\ \A i \in 1..n :
                  /\ generated[i].dirname = DiscoveredKeys[i]
                  /\ generated[i].filename = ExpectedName(DiscoveredKeys[i])
            /\ NamesUpTo(n) \subseteq DOMAIN cwd
            /\ OthersUntouched(NamesUpTo(n))
            /\ \A f \in NamesUpTo(n) : cwd[f] = DocumentOf(LastNamed(f, n))

C8_Witness ==
    /\ pc = "done"
    /\ cwdStart # EmptyDir
    /\ Len(generated) = 3
    /\ generated[1].dirname = S_a_backslash_b
    /\ generated[3].dirname = S_a_slash_b
    /\ generated[1].filename = generated[3].filename
    /\ generated[2].filename # generated[1].filename

\* C9: a second run on the same tree and environment, started in the working
\* directory the first run left, leaves every file with the content it had
\* after the first run and creates no other file.
C9_RerunChangesNothing ==
    /\ (run = 2 /\ pc = "done") => cwd = cwdStart
    /\ (run = 2 /\ pc \in {"collect", "group", "write", "done"})
          => DOMAIN cwd = DOMAIN cwdStart

C9_Witness ==
    /\ run = 2
    /\ pc = "done"
    /\ Len(generated) >= 2
    /\ Len(walk) > Len(tree)
    /\ cwd = cwdStart

\* a write of the manifest of group gi has failed
WriteFailed == pc = "crashed" /\ error = "OSError"

\* every file in names holds the document of the last group before the
\* failing one that is written to it
IntactIn(names) ==
    \A f \in names : f \in DOMAIN cwd /\ cwd[f] = DocumentOf(LastNamed(f, gi - 1))

\* C10 as stated: a write failure ends the run as a failure; the manifests of
\* the groups written before the failing group remain with their complete
\* content; no manifest is written for a later group.
C10_EarlierManifestsRemain ==
    /\ error = "OSError" => pc = "crashed"
    /\ WriteFailed =>
          /\ Len(generated) = gi - 1
          /\ IntactIn(NamesUpTo(gi - 1))
          /\ OthersUntouched(NamesUpTo(gi))

\* C10 amended: a write failure ends the run as a failure; the manifests of
\* the groups written before the failing group remain with their complete
\* content, except the file that the failing group's key names as well,
\* which may be left truncated; no manifest is written for a later group.
C10_OtherManifestsRemain ==
    /\ error = "OSError" => pc = "crashed"
    /\ WriteFailed =>
          /\ Len(generated) = gi - 1
          /\ IntactIn(NamesUpTo(gi - 1) \ {ExpectedName(DiscoveredKeys[gi])})
          /\ OthersUntouched(NamesUpTo(gi))

C10_Witness ==
    /\ WriteFailed
    /\ gi = 2
    /\ Len(grouped_by_dir) = 3
    /\ ExpectedName(DiscoveredKeys[1]) # ExpectedName(DiscoveredKeys[2])
    /\ ExpectedName(DiscoveredKeys[2]) \in DOMAIN cwd
    /\ cwd[ExpectedName(DiscoveredKeys[2])] # DocumentOf(2)
    /\ ExpectedName(DiscoveredKeys[3]) \notin DOMAIN cwd

====
